---- MODULE Spec2Model ----
(***************************************************************************)
(* pgtozod: generation of zod schemas from PostgreSQL table metadata.      *)
(* Model of src/src/db.js (the pool factory and the command line entry     *)
(* point that follows it in that file).  Text is modelled by TLA+ strings, *)
(* on which TLC evaluates Len, \o and SubSeq.                              *)
(***************************************************************************)
EXTENDS Integers, Sequences, FiniteSets, TLC

\* ------------------------------------------------------------------------
\* JavaScript string primitives used by the source
\* ------------------------------------------------------------------------

\* JavaScript values, tagged by type.  undefined: a missing argument or a
\* failed parse; null: SQL NULL as the driver returns it.
undefined == [t |-> "undefined"]
null == [t |-> "null"]
Str(s) == [t |-> "string", v |-> s]
Bool(b) == [t |-> "boolean", b |-> b]
\* the number m * 10^e, with m not a multiple of 10 unless it is 0
Num(m, e) == [t |-> "number", m |-> m, e |-> e]
\* an exception leaving a function instead of a value
Throw(name) == [t |-> "throw", error |-> name]

Lowers == "abcdefghijklmnopqrstuvwxyz"
Uppers == "ABCDEFGHIJKLMNOPQRSTUVWXYZ"
Digits == "0123456789"

\* the characters of s at positions a..b (1-based, inclusive); "" when empty
substr(s, a, b) ==
    IF a > b \/ a > Len(s) \/ b < 1 THEN ""
    ELSE SubSeq(s, IF a < 1 THEN 1 ELSE a, IF b > Len(s) THEN Len(s) ELSE b)

\* s.charAt(i - 1): "" out of range
charAt(s, i) == substr(s, i, i)

\* position of the one-character string c in alphabet, 0 when absent
IndexIn(c, alphabet) ==
    IF \E i \in 1..Len(alphabet) : charAt(alphabet, i) = c
    THEN CHOOSE i \in 1..Len(alphabet) : charAt(alphabet, i) = c
    ELSE 0

\* the characters of an alphabet, and the position of each
CharsOf(alphabet) == { charAt(alphabet, i) : i \in 1..Len(alphabet) }
PositionsIn(alphabet) == [c \in CharsOf(alphabet) |-> IndexIn(c, alphabet)]
LowerSet == CharsOf(Lowers)
UpperSet == CharsOf(Uppers)
DigitSet == CharsOf(Digits)
LowerIndex == PositionsIn(Lowers)
UpperIndex == PositionsIn(Uppers)
DigitIndex == PositionsIn(Digits)

IsLower(c) == c \in LowerSet
IsUpper(c) == c \in UpperSet
IsDigit(c) == c \in DigitSet
\* the regular expression class \w
IsWordChar(c) == IsLower(c) \/ IsUpper(c) \/ IsDigit(c) \/ c = "_"

upperChar(c) == IF IsLower(c) THEN charAt(Uppers, LowerIndex[c]) ELSE c
lowerChar(c) == IF IsUpper(c) THEN charAt(Lowers, UpperIndex[c]) ELSE c

RECURSIVE toUpperCase(_)
toUpperCase(s) ==
    IF s = "" THEN ""
    ELSE upperChar(charAt(s, 1)) \o toUpperCase(substr(s, 2, Len(s)))

RECURSIVE toLowerCase(_)
toLowerCase(s) ==
    IF s = "" THEN ""
    ELSE lowerChar(charAt(s, 1)) \o toLowerCase(substr(s, 2, Len(s)))

endsWith(s, suffix) ==
    /\ Len(suffix) <= Len(s)
    /\ substr(s, Len(s) - Len(suffix) + 1, Len(s)) = suffix

startsWith(s, prefix) ==
    /\ Len(prefix) <= Len(s)
    /\ substr(s, 1, Len(prefix)) = prefix

\* s.slice(0, -2)
sliceOffEnd2(s) == substr(s, 1, Len(s) - 2)

\* s.slice(1)
sliceFrom1(s) == substr(s, 2, Len(s))

RECURSIVE trimStart(_)
trimStart(s) ==
    IF s # "" /\ charAt(s, 1) = " " THEN trimStart(substr(s, 2, Len(s))) ELSE s

RECURSIVE trimEnd(_)
trimEnd(s) ==
    IF s # "" /\ charAt(s, Len(s)) = " " THEN trimEnd(substr(s, 1, Len(s) - 1)) ELSE s

trim(s) == trimEnd(trimStart(s))

\* s.split(sep) for a one-character separator: the pieces between the
\* separators, empty pieces included
RECURSIVE splitFrom(_, _, _)
splitFrom(s, sep, cur) ==
    IF s = "" THEN <<cur>>
    ELSE IF charAt(s, 1) = sep
         THEN <<cur>> \o splitFrom(substr(s, 2, Len(s)), sep, "")
         ELSE splitFrom(substr(s, 2, Len(s)), sep, cur \o charAt(s, 1))

split(s, sep) == splitFrom(s, sep, "")

\* parts.join(sep)
RECURSIVE join(_, _)
join(parts, sep) ==
    IF Len(parts) = 0 THEN ""
    ELSE IF Len(parts) = 1 THEN parts[1]
    ELSE parts[1] \o sep \o join(Tail(parts), sep)

\* ------------------------------------------------------------------------
\* Identifier transformer
\* ------------------------------------------------------------------------

\* str.replace(/_([a-z])/g, g => g[1].toUpperCase())
RECURSIVE camelCase(_)
camelCase(str) ==
    IF str = "" THEN ""
    ELSE IF Len(str) >= 2 /\ charAt(str, 1) = "_" /\ IsLower(charAt(str, 2))
         THEN upperChar(charAt(str, 2)) \o camelCase(substr(str, 3, Len(str)))
         ELSE charAt(str, 1) \o camelCase(substr(str, 2, Len(str)))

capitalizeFirstLetter(string) ==
    upperChar(charAt(string, 1)) \o sliceFrom1(string)

mapCapitalize(parts) == [i \in 1..Len(parts) |-> capitalizeFirstLetter(parts[i])]

\* the name without a final "id", whatever its case
nameWithoutId(snakeCaseName) ==
    IF endsWith(toLowerCase(snakeCaseName), "id")
    THEN sliceOffEnd2(snakeCaseName)
    ELSE snakeCaseName

getReadableNameFromSnakeCase(snakeCaseName) ==
    join(mapCapitalize(split(trim(nameWithoutId(snakeCaseName)), "_")), " ")

\* ------------------------------------------------------------------------
\* Numbers: Number(text) and String(number)
\* ------------------------------------------------------------------------

AllDigits(s) == \A i \in 1..Len(s) : IsDigit(charAt(s, i))

\* position, from i on, of the first character of s that is in charset, 0
\* when there is none
RECURSIVE firstFrom(_, _, _)
firstFrom(s, charset, i) ==
    IF i > Len(s) THEN 0
    ELSE IF charAt(s, i) \in charset THEN i
    ELSE firstFrom(s, charset, i + 1)

\* position of the first character of s that is one of the characters of
\* chars, 0 when there is none
FirstOf(s, chars) == firstFrom(s, CharsOf(chars), 1)

stripSign(s) == IF charAt(s, 1) = "-" \/ charAt(s, 1) = "+" THEN sliceFrom1(s) ELSE s

\* the part of an unsigned number text before its exponent marker
mantissaOf(u) == IF FirstOf(u, "eE") = 0 THEN u ELSE substr(u, 1, FirstOf(u, "eE") - 1)
\* the exponent (its sign included), "" when the text has no exponent
exponentOf(u) == IF FirstOf(u, "eE") = 0 THEN "" ELSE substr(u, FirstOf(u, "eE") + 1, Len(u))
intDigitsOf(mant) == IF FirstOf(mant, ".") = 0 THEN mant ELSE substr(mant, 1, FirstOf(mant, ".") - 1)
fracDigitsOf(mant) == IF FirstOf(mant, ".") = 0 THEN "" ELSE substr(mant, FirstOf(mant, ".") + 1, Len(mant))

\* \d*\.?\d+ matching all of mant
MatchesMantissa(mant) ==
    IF FirstOf(mant, ".") = 0
    THEN mant # "" /\ AllDigits(mant)
    ELSE /\ AllDigits(intDigitsOf(mant))
         /\ fracDigitsOf(mant) # "" /\ AllDigits(fracDigitsOf(mant))

\* [-+]?\d+ matching all of ex
MatchesExponent(ex) == stripSign(ex) # "" /\ AllDigits(stripSign(ex))

\* \d*\.?\d+(?:[eE][-+]?\d+)? matching all of u
MatchesUnsigned(u) ==
    /\ MatchesMantissa(mantissaOf(u))
    /\ FirstOf(u, "eE") > 0 => MatchesExponent(exponentOf(u))

\* /^[-+]?\d*\.?\d+(?:[eE][-+]?\d+)?$/
MatchesNumber(s) == MatchesUnsigned(stripSign(s))

RECURSIVE digitsValue(_)
digitsValue(s) ==
    IF s = "" THEN 0
    ELSE 10 * digitsValue(substr(s, 1, Len(s) - 1)) + (DigitIndex[charAt(s, Len(s))] - 1)

RECURSIVE normalize(_, _)
normalize(m, e) ==
    IF m = 0 THEN Num(0, 0)
    ELSE IF m % 10 = 0 THEN normalize(m \div 10, e + 1)
    ELSE Num(m, e)

\* value of the signed digits of an exponent, 0 for ""
signedValue(exs) ==
    IF charAt(exs, 1) = "-" THEN 0 - digitsValue(stripSign(exs))
    ELSE digitsValue(stripSign(exs))

\* value of an unsigned number text of mantissa mant and exponent exs
unsignedValue(negative, mant, exs) ==
    normalize(IF negative THEN 0 - digitsValue(intDigitsOf(mant) \o fracDigitsOf(mant))
              ELSE digitsValue(intDigitsOf(mant) \o fracDigitsOf(mant)),
              signedValue(exs) - Len(fracDigitsOf(mant)))

\* Number(text) for a text that MatchesNumber: its decimal value
Number(s) ==
    unsignedValue(charAt(s, 1) = "-", mantissaOf(stripSign(s)), exponentOf(stripSign(s)))

RECURSIVE natToString(_)
natToString(n) ==
    IF n < 10 THEN charAt(Digits, n + 1)
    ELSE natToString(n \div 10) \o charAt(Digits, (n % 10) + 1)

RECURSIVE zeros(_)
zeros(n) == IF n <= 0 THEN "" ELSE "0" \o zeros(n - 1)

\* String(x) for a number in the range JavaScript prints in positional
\* notation
\* the digits ds scaled by 10^e, in positional notation
positional(ds, e) ==
    IF e >= 0 THEN ds \o zeros(e)
    ELSE IF Len(ds) > 0 - e
    THEN substr(ds, 1, Len(ds) + e) \o "." \o substr(ds, Len(ds) + e + 1, Len(ds))
    ELSE "0." \o zeros((0 - e) - Len(ds)) \o ds

numberToString(x) ==
    IF x.m < 0 THEN "-" \o positional(natToString(0 - x.m), x.e)
    ELSE positional(natToString(x.m), x.e)

\* `${value}` in a template literal
toText(v) ==
    CASE v.t = "string" -> v.v
      [] v.t = "number" -> numberToString(v)
      [] v.t = "boolean" -> IF v.b THEN "true" ELSE "false"
      [] v.t = "undefined" -> "undefined"
      [] v.t = "null" -> "null"

\* a value in a condition: if (v), v ? a : b, !v
truthy(v) ==
    CASE v.t = "string" -> v.v # ""
      [] v.t = "number" -> v.m # 0
      [] v.t = "boolean" -> v.b
      [] OTHER -> FALSE

\* ------------------------------------------------------------------------
\* Enum registry: a JavaScript object, modelled by the sequence of its
\* entries in insertion order
\* ------------------------------------------------------------------------

hasEnum(enums, name) == \E i \in 1..Len(enums) : enums[i].enum_name = name

\* enums[name] for a name that hasEnum
enumValues(enums, name) ==
    enums[CHOOSE i \in 1..Len(enums) : enums[i].enum_name = name].values

\* values.map((v) => `'${v}'`)
quoteAll(values) == [i \in 1..Len(values) |-> "'" \o values[i] \o "'"]

\* ------------------------------------------------------------------------
\* Default-value parser
\* ------------------------------------------------------------------------

NumericTypes == {"integer", "bigint", "numeric", "smallint", "double precision"}
TextTypes == {"character varying", "text"}

\* /^'([-+]?\d*\.?\d+(?:[eE][-+]?\d+)?)'::\w+$/ : the captured number text,
\* or undefined when the pattern does not match
\* ::\w+ matching all of rest
MatchesCast(rest) ==
    /\ startsWith(rest, "::")
    /\ Len(rest) > 2
    /\ \A i \in 3..Len(rest) : IsWordChar(charAt(rest, i))

\* the match of a value whose second single quote is at position q
castNumberAt(value, q) ==
    IF /\ charAt(value, 1) = "'"
       /\ q > 1
       /\ MatchesNumber(substr(value, 2, q - 1))
       /\ MatchesCast(substr(value, q + 1, Len(value)))
    THEN Str(substr(value, 2, q - 1))
    ELSE undefined

castNumberMatch(value) == castNumberAt(value, FirstOf(sliceFrom1(value), "'") + 1)

\* value.replace(/^'(.*)'$/, "$1"), for a value of one line
stripQuotes(value) ==
    IF Len(value) >= 2 /\ charAt(value, 1) = "'" /\ charAt(value, Len(value)) = "'"
    THEN substr(value, 2, Len(value) - 1)
    ELSE value

\* s against a pattern in which # stands for \d and every other character
\* for itself, anchored at both ends
MatchesMask(s, mask) ==
    /\ Len(s) = Len(mask)
    /\ \A i \in 1..Len(mask) :
          IF charAt(mask, i) = "#" THEN IsDigit(charAt(s, i))
          ELSE charAt(s, i) = charAt(mask, i)

\* /^'(\d{4}-\d{2}-\d{2})'::date$/
DateMask == "'####-##-##'::date"
\* /^'(\d{4}-\d{2}-\d{2} \d{2}:\d{2}:\d{2})'::timestamp with time zone$/
TimestampMask == "'####-##-## ##:##:##'::timestamp with time zone"

\* value.split("'")[1], as a template literal prints it
pieceAt(pieces, i) == IF Len(pieces) >= i THEN Str(pieces[i]) ELSE undefined

secondPiece(value) == pieceAt(split(value, "'"), 2)

\* the numeric case, numberMatch being the match of the cast pattern
parseNumber(value, numberMatch) ==
    IF numberMatch # undefined THEN Number(numberMatch.v)
    ELSE IF MatchesNumber(value) THEN Number(value)
    ELSE undefined

\* the date case, lower being value.toLowerCase()
parseDate(lower) ==
    IF lower = "now()::date" THEN Str("new Date()")
    ELSE IF lower = "current_date" THEN Str("new Date()")
    ELSE IF lower = "('now'::text)::date" THEN Str("new Date()")
    ELSE IF MatchesMask(lower, DateMask)
    THEN Str("new Date('" \o substr(lower, 2, 11) \o "')")
    ELSE undefined

\* parseTimestamp without the form current_timestamp
parseTimestamp_noCurrent(lower) ==
    IF lower = toLowerCase("(now() at time zone 'utc'::text)") THEN Str("new Date()")
    ELSE IF lower = "now()" THEN Str("new Date()")
    ELSE IF MatchesMask(lower, TimestampMask)
    THEN Str("new Date('" \o substr(lower, 2, 20) \o "')")
    ELSE undefined

\* the timestamp case, lower being value.toLowerCase()
parseTimestamp(lower) ==
    IF lower = toLowerCase("(now() at time zone 'utc'::text)") THEN Str("new Date()")
    ELSE IF lower = "now()" THEN Str("new Date()")
    ELSE IF lower = "current_timestamp" THEN Str("new Date()")
    ELSE IF MatchesMask(lower, TimestampMask)
    THEN Str("new Date('" \o substr(lower, 2, 20) \o "')")
    ELSE undefined

\* the default case: the default of an enum column
parseEnum(value, enums) ==
    IF \E i \in 1..Len(enums) : endsWith(value, "::" \o enums[i].enum_name)
    THEN Str("'" \o toText(secondPiece(value)) \o "'")
    ELSE undefined

parseDefaultValue(value, dataType, enums) ==
    CASE dataType \in NumericTypes -> parseNumber(value, castNumberMatch(value))
      [] dataType = "boolean" -> Bool(value = "true")
      [] dataType \in TextTypes -> Str("'" \o stripQuotes(value) \o "'")
      [] dataType = "date" -> parseDate(toLowerCase(value))
      [] dataType = "timestamp with time zone" -> parseTimestamp(toLowerCase(value))
      [] OTHER -> parseEnum(value, enums)

\* ------------------------------------------------------------------------
\* Type mapper
\* ------------------------------------------------------------------------

\* typeFor with a fallback that throws
typeFor_fallbackThrows(dataType, enums, readableName, udt_name, character_maximum_length, maxLengthText) ==
    IF hasEnum(enums, udt_name) THEN Throw("ReferenceError")
    ELSE IF dataType = "character" /\ truthy(character_maximum_length)
    THEN Str("z.string().length(" \o maxLengthText \o ", '" \o readableName
             \o " must be " \o maxLengthText \o " characters long')")
    ELSE IF startsWith(dataType, "character varying") \/ dataType = "text"
    THEN Str("z.string().min(1, '" \o readableName \o " is required')")
    ELSE IF dataType \in NumericTypes
    THEN Str("z.number().gt(0, '" \o readableName \o " is required')")
    ELSE IF dataType = "boolean" THEN Str("z.boolean()")
    ELSE IF dataType = "timestamp with time zone"
    THEN Str("zodUtcDate('" \o readableName \o "')")
    ELSE IF dataType = "date" THEN Str("zodDateOnly('" \o readableName \o "')")
    ELSE IF dataType = "uuid" THEN Str("zodUUID('" \o readableName \o "')")
    ELSE Throw("TypeError")

\* the chain of tests of getTypeForDataType, readableName and maxLengthText
\* being the texts its templates interpolate
typeFor(dataType, enums, readableName, udt_name, character_maximum_length, maxLengthText) ==
    IF hasEnum(enums, udt_name)
    THEN \* column_default and data_type are read, and are not in scope
         Throw("ReferenceError")
    ELSE IF dataType = "character" /\ truthy(character_maximum_length)
    THEN Str("z.string().length(" \o maxLengthText \o ", '" \o readableName
             \o " must be " \o maxLengthText \o " characters long')")
    ELSE IF startsWith(dataType, "character varying") \/ dataType = "text"
    THEN Str("z.string().min(1, '" \o readableName \o " is required')")
    ELSE IF dataType \in NumericTypes
    THEN Str("z.number().gt(0, '" \o readableName \o " is required')")
    ELSE IF dataType = "boolean" THEN Str("z.boolean()")
    ELSE IF dataType = "timestamp with time zone"
    THEN Str("zodUtcDate('" \o readableName \o "')")
    ELSE IF dataType = "date" THEN Str("zodDateOnly('" \o readableName \o "')")
    ELSE IF dataType = "uuid" THEN Str("zodUUID('" \o readableName \o "')")
    ELSE Str("z.unknown()")

\* getTypeForDataType with the column name in the messages as it is
getTypeForDataType_rawName(dataType, enums, columnName, udt_name, character_maximum_length) ==
    typeFor(dataType, enums, columnName, udt_name,
            character_maximum_length, toText(character_maximum_length))

getTypeForDataType(dataType, enums, columnName, udt_name, character_maximum_length) ==
    typeFor(dataType, enums, getReadableNameFromSnakeCase(columnName), udt_name,
            character_maximum_length, toText(character_maximum_length))

\* ------------------------------------------------------------------------
\* String comparison
\* ------------------------------------------------------------------------

\* lexicographic comparison of two sequences of integers: -1, 0 or 1
RECURSIVE lexCompare(_, _)
lexCompare(p, q) ==
    IF Len(p) = 0 /\ Len(q) = 0 THEN 0
    ELSE IF Len(p) = 0 THEN -1
    ELSE IF Len(q) = 0 THEN 1
    ELSE IF Head(p) < Head(q) THEN -1
    ELSE IF Head(p) > Head(q) THEN 1
    ELSE lexCompare(Tail(p), Tail(q))

\* primary collation weight of a character: punctuation, then digits, then
\* letters without regard to case
primaryWeight(c) ==
    IF c = "_" THEN 1
    ELSE IF IsDigit(c) THEN 1 + DigitIndex[c]
    ELSE IF IsLower(c) THEN 11 + LowerIndex[c]
    ELSE IF IsUpper(c) THEN 11 + UpperIndex[c]
    ELSE 0

\* tertiary collation weight: lower case before upper case
tertiaryWeight(c) == IF IsUpper(c) THEN 1 ELSE 0

\* a.localeCompare(b) under the collation of the JavaScript runtime's
\* internationalisation library: primary weights decide; case breaks ties
primaryWeights(a) == [i \in 1..Len(a) |-> primaryWeight(charAt(a, i))]
tertiaryWeights(a) == [i \in 1..Len(a) |-> tertiaryWeight(charAt(a, i))]

\* the comparison at the first level that tells the strings apart
firstDifference(primary, tertiary) == IF primary # 0 THEN primary ELSE tertiary

localeCompare(a, b) ==
    firstDifference(lexCompare(primaryWeights(a), primaryWeights(b)),
                    lexCompare(tertiaryWeights(a), tertiaryWeights(b)))

\* UTF-16 code unit of a character
codeUnit(c) ==
    IF IsDigit(c) THEN 47 + DigitIndex[c]
    ELSE IF IsUpper(c) THEN 64 + UpperIndex[c]
    ELSE IF c = "_" THEN 95
    ELSE IF IsLower(c) THEN 96 + LowerIndex[c]
    ELSE 0

\* ordinal comparison (a < b, a > b on strings): -1, 0 or 1
ordinalCompare(a, b) ==
    lexCompare([i \in 1..Len(a) |-> codeUnit(charAt(a, i))],
               [i \in 1..Len(b) |-> codeUnit(charAt(b, i))])

\* ------------------------------------------------------------------------
\* getTableSchema: the synchronous part, from the column loop to the file
\* ------------------------------------------------------------------------

\* `z.array(${inner})`, unless the call for inner threw
arrayOf(inner) == IF inner.t = "throw" THEN inner ELSE Str("z.array(" \o inner.v \o ")")

\* base type of a column
columnType(column, enums) ==
    IF hasEnum(enums, column.udt_name)
    THEN Str("z.enum([" \o join(quoteAll(enumValues(enums, column.udt_name)), ", ") \o "])")
    ELSE IF endsWith(column.data_type, "[]")
    THEN arrayOf(getTypeForDataType(sliceOffEnd2(column.data_type), enums,
                                    column.column_name, column.udt_name, undefined))
    ELSE getTypeForDataType(column.data_type, enums, column.column_name,
                            column.udt_name, column.character_maximum_length)

\* appendDefault without the test of the parsed value
appendDefault_always(type, defaultValue) ==
    type \o ".default(" \o toText(defaultValue) \o ")"

\* type += `.default(${defaultValue})`
appendDefault(type, defaultValue) ==
    IF defaultValue # undefined
    THEN type \o ".default(" \o toText(defaultValue) \o ")"
    ELSE type

\* the default of the column parsed and appended, when it has one
withDefault(type, column, enums) ==
    IF column.column_default # null
    THEN appendDefault(type, parseDefaultValue(column.column_default.v, column.data_type, enums))
    ELSE type

\* type += `.optional()`
withOptional(type, column) ==
    IF column.is_nullable = "YES" THEN type \o ".optional()" ELSE type

\* included with nullable columns passing whatever the policy
included_nullableAlways(column, excludeDefaults, includeNullable) ==
    ~(excludeDefaults /\ column.column_default # null)

\* included with the defaults of identity columns exempt from the policy
included_identityExempt(column, excludeDefaults, includeNullable) ==
    /\ ~(excludeDefaults /\ column.column_default # null /\ column.is_identity # "YES")
    /\ (column.is_nullable = "NO" \/ includeNullable)

\* whether the loop body passes both filters for the column
included(column, excludeDefaults, includeNullable) ==
    /\ ~(excludeDefaults /\ column.column_default # null)
    /\ (column.is_nullable = "NO" \/ includeNullable)

\* the entry of an included column whose base type is type
entryOf(column, type, enums) ==
    [key |-> camelCase(column.column_name),
     value |-> withOptional(withDefault(type, column, enums), column)]

\* route keeping the first identity entry instead of the last
route_firstIdentity(acc, column, entry) ==
    IF column.is_identity = "YES"
    THEN IF acc.identityColumnEntry = null
         THEN [acc EXCEPT !.identityColumnEntry = entry]
         ELSE acc
    ELSE [acc EXCEPT !.schemaEntries = Append(@, entry)]

\* one pass of the loop body over column, from the locals in acc
\* the entry routed to the identity slot or pushed onto the list
route(acc, column, entry) ==
    IF column.is_identity = "YES"
    THEN [acc EXCEPT !.identityColumnEntry = entry]
    ELSE [acc EXCEPT !.schemaEntries = Append(@, entry)]

\* the loop body for an included column of base type type
addColumn(acc, column, type, enums) ==
    IF type.t = "throw" THEN type
    ELSE route(acc, column, entryOf(column, type.v, enums))

forEachBody(acc, column, enums, excludeDefaults, includeNullable) ==
    IF acc.t = "throw" \/ ~included(column, excludeDefaults, includeNullable) THEN acc
    ELSE addColumn(acc, column, columnType(column, enums), enums)

\* res.rows.forEach(...)
RECURSIVE forEachColumn(_, _, _, _, _)
forEachColumn(rows, acc, enums, excludeDefaults, includeNullable) ==
    IF Len(rows) = 0 THEN acc
    ELSE forEachColumn(Tail(rows),
                       forEachBody(acc, Head(rows), enums, excludeDefaults, includeNullable),
                       enums, excludeDefaults, includeNullable)

\* insertSorted without the comparison: the entry put last
insertSorted_atEnd(sorted, entry) == sorted \o <<entry>>

\* entry put into a sorted list after every entry that does not compare
\* greater than it
RECURSIVE insertSorted(_, _)
insertSorted(sorted, entry) ==
    IF Len(sorted) = 0 THEN <<entry>>
    ELSE IF localeCompare(entry.key, Head(sorted).key) < 0 THEN <<entry>> \o sorted
    ELSE <<Head(sorted)>> \o insertSorted(Tail(sorted), entry)

\* schemaEntries.sort((a, b) => a.key.localeCompare(b.key)), a stable sort
RECURSIVE sortEntries(_)
sortEntries(entries) ==
    IF Len(entries) = 0 THEN <<>>
    ELSE insertSorted(sortEntries(SubSeq(entries, 1, Len(entries) - 1)),
                      entries[Len(entries)])

\* orderEntries without the sort
orderEntries_unsorted(acc) ==
    IF acc.identityColumnEntry # null
    THEN <<acc.identityColumnEntry>> \o acc.schemaEntries
    ELSE acc.schemaEntries

\* the sort, then the identity entry put first
orderEntries(acc) ==
    IF acc.identityColumnEntry # null
    THEN <<acc.identityColumnEntry>> \o sortEntries(acc.schemaEntries)
    ELSE sortEntries(acc.schemaEntries)

\* the locals before the loop
emptyLocals == [t |-> "locals", schemaEntries |-> <<>>, identityColumnEntry |-> null]

\* the ordered entries of a table, or the exception the loop ends with
ordered(acc) ==
    IF acc.t = "throw" THEN acc ELSE [t |-> "entries", entries |-> orderEntries(acc)]

assemble(rows, enums, excludeDefaults, includeNullable) ==
    ordered(forEachColumn(rows, emptyLocals, enums, excludeDefaults, includeNullable))

\* entries.map((entry) => `  ${entry.key}: ${entry.value},`)
entryLines(entries) ==
    [i \in 1..Len(entries) |-> "  " \o entries[i].key \o ": " \o entries[i].value \o ","]

\* the text of the generated file
schemaText(tableName, entries) ==
    "import { z } from 'zod';\nimport { zodUtcDate, zodDateOnly } from './types';\n\n"
    \o "const " \o tableName \o "Schema = z.object({\n"
    \o join(entryLines(entries), "\n")
    \o "});\n\nexport type " \o capitalizeFirstLetter(tableName)
    \o "Type = z.infer<typeof " \o tableName \o "Schema>;\n"

\* ------------------------------------------------------------------------
\* Enum registry builder and table name validation
\* ------------------------------------------------------------------------

\* enumPush putting the label before the labels already there
enumPush_prepend(enums, row) ==
    IF hasEnum(enums, row.enum_name)
    THEN [i \in 1..Len(enums) |->
            IF enums[i].enum_name = row.enum_name
            THEN [enums[i] EXCEPT !.values = <<row.enum_value>> \o @]
            ELSE enums[i]]
    ELSE Append(enums, [enum_name |-> row.enum_name, values |-> <<row.enum_value>>])

\* one pass of the loop body of getEnumTypes: the entry of the row's type is
\* created when missing, and the row's label pushed onto it
enumPush(enums, row) ==
    IF hasEnum(enums, row.enum_name)
    THEN [i \in 1..Len(enums) |->
            IF enums[i].enum_name = row.enum_name
            THEN [enums[i] EXCEPT !.values = Append(@, row.enum_value)]
            ELSE enums[i]]
    ELSE Append(enums, [enum_name |-> row.enum_name, values |-> <<row.enum_value>>])

\* the registry built from the rows of the enum query
RECURSIVE getEnumTypes(_)
getEnumTypes(rows) ==
    IF Len(rows) = 0 THEN <<>>
    ELSE enumPush(getEnumTypes(SubSeq(rows, 1, Len(rows) - 1)), rows[Len(rows)])

reservedWords == {"select", "delete", "update"}

validateTableName(tableName) ==
    /\ \A i \in 1..Len(tableName) :
          IsWordChar(charAt(tableName, i)) \/ charAt(tableName, i) = "-"
    /\ toLowerCase(tableName) \notin reservedWords

\* ------------------------------------------------------------------------
\* The environment: command lines and database contents
\* ------------------------------------------------------------------------

\* most columns a table of the model has
MaxCols == 3
\* most tables the schema of the model has
MaxTables == 2

Column(name, type, nullable, default, udt, identity, maxLength) ==
    [column_name |-> name, data_type |-> type, is_nullable |-> nullable,
     column_default |-> default, udt_name |-> udt, is_identity |-> identity,
     character_maximum_length |-> maxLength]

\* rows of information_schema.columns a table may be made of
ColumnPool ==
    { Column("id", "integer", "NO", null, "int4", "YES", null),
      Column("seq_no", "bigint", "NO", null, "int8", "YES", null),
      Column("user_name", "character varying", "NO", null, "varchar", "NO", Num(5, 1)),
      Column("username", "text", "NO", null, "text", "NO", null),
      Column("status", "USER-DEFINED", "NO", null, "status", "NO", null),
      Column("created_at", "timestamp with time zone", "NO", Str("now()"), "timestamptz", "NO", null),
      Column("uid", "uuid", "YES", null, "uuid", "NO", null) }

\* results of the column query: up to MaxCols columns of distinct names, in
\* any order
RowChoices ==
    { rows \in UNION { [1..n -> ColumnPool] : n \in 0..MaxCols } :
        \A i, j \in 1..Len(rows) : i # j => rows[i].column_name # rows[j].column_name }

\* rows of the enum query, ordered by type name and sort order
EnumRows ==
    << [enum_name |-> "mood", enum_value |-> "sad"],
       [enum_name |-> "mood", enum_value |-> "happy"],
       [enum_name |-> "status", enum_value |-> "active"],
       [enum_name |-> "status", enum_value |-> "inactive"] >>

\* base tables of the schema, as the table query lists them
TableNames == <<"users", "orders", "items", "events">>

\* values of --table on the command line; undefined when the option is absent
TableArgs ==
    { undefined, Str("users"), Str("all"), Str("Select"), Str("users; drop"), Str("insert") }

\* default of --exclude-defaults and of --nullable
excludeDefaultsDefault == TRUE
nullableDefault == FALSE

\* ------------------------------------------------------------------------
\* State
\* ------------------------------------------------------------------------

VARIABLES
    argv,          \* the command line: table, excludeDefaults, nullable, reset
    options,       \* program.opts(), undefined before the command line is parsed
    config,        \* ~/.pgtozod: "absent", "empty" (no complete config.json) or "complete"
    client,        \* "undefined", "connected" or "ended"
    pc,            \* where the program is
    exitCode,      \* undefined while the process runs
    allTables,     \* the tables main generates, in order
    tableIdx,      \* position in allTables of the table being generated
    tableName,     \* getTableSchema: its parameter
    res,           \* getTableSchema: rows of the column query
    enums,         \* getTableSchema: the enum registry
    schemaEntries, \* getTableSchema: the ordered entries
    schema,        \* getTableSchema: text of the file
    files,         \* names of the tables whose file was written
    copied,        \* whether types.ts was copied to the output directory
    enumFetches,   \* number of enum queries sent so far
    call,          \* a direct call of one of the functions
    ret            \* what the direct call returned

vars == <<argv, options, config, client, pc, exitCode, allTables, tableIdx,
          tableName, res, enums, schemaEntries, schema, files, copied, enumFetches,
          call, ret>>

mainVars == <<allTables, tableIdx, files, copied, enumFetches>>
tableVars == <<tableName, res, enums, schemaEntries, schema>>
callVars == <<call, ret>>

noCall == [fn |-> "none"]

\* everything but the command line, the configuration and pc, as the process starts
Idle ==
    /\ options = undefined
    /\ client = "undefined"
    /\ exitCode = undefined
    /\ allTables = <<>>
    /\ tableIdx = 0
    /\ tableName = ""
    /\ res = <<>>
    /\ enums = <<>>
    /\ schemaEntries = <<>>
    /\ schema = ""
    /\ files = {}
    /\ copied = FALSE
    /\ enumFetches = 0
    /\ call = noCall
    /\ ret = undefined

Init ==
    /\ argv \in [table : TableArgs, excludeDefaults : BOOLEAN, nullable : BOOLEAN,
                 reset : BOOLEAN]
    /\ config \in {"absent", "empty", "complete"}
    /\ pc = "start"
    /\ Idle

\* ------------------------------------------------------------------------
\* The command line program
\* ------------------------------------------------------------------------

\* program.parse(process.argv); program.opts()
ParseArgs ==
    /\ pc = "start"
    /\ options' = [t |-> "options",
                   table |-> argv.table,
                   excludeDefaults |-> IF argv.excludeDefaults THEN TRUE ELSE excludeDefaultsDefault,
                   nullable |-> IF argv.nullable THEN TRUE ELSE nullableDefault,
                   reset |-> argv.reset]
    /\ pc' = "validate"
    /\ UNCHANGED <<argv, config, client, exitCode, mainVars, tableVars, callVars>>

\* whether the table option is given and names a valid table
tableAccepted(opts) == truthy(opts.table) /\ validateTableName(opts.table.v)

\* the check of the table option fails: process.exit(1)
RejectTable ==
    /\ pc = "validate"
    /\ ~tableAccepted(options)
    /\ exitCode' = Num(1, 0)
    /\ pc' = "exited"
    /\ UNCHANGED <<argv, options, config, client, mainVars, tableVars, callVars>>

\* the configuration directory is created when missing and config.json read
\* when there; the details are asked for when they are incomplete or --reset
\* is given
LoadConfig ==
    /\ pc = "validate"
    /\ tableAccepted(options)
    /\ config' = IF config = "absent" THEN "empty" ELSE config
    /\ pc' = IF options.reset \/ config # "complete" THEN "prompt" ELSE "main"
    /\ UNCHANGED <<argv, options, client, exitCode, mainVars, tableVars, callVars>>

\* the five questions are answered and config.json written
Prompt ==
    /\ pc = "prompt"
    /\ config' = "complete"
    /\ pc' = "main"
    /\ UNCHANGED <<argv, options, client, exitCode, mainVars, tableVars, callVars>>

\* client = await createPool().connect()
Connect ==
    /\ pc = "main"
    /\ client' = "connected"
    /\ pc' = "tables"
    /\ UNCHANGED <<argv, options, config, exitCode, mainVars, tableVars, callVars>>

\* the connection attempt is rejected
ConnectFails ==
    /\ pc = "main"
    /\ pc' = "catch"
    /\ UNCHANGED <<argv, options, config, client, exitCode, mainVars, tableVars, callVars>>

\* the tables to generate: those of the schema for "all", else the one named
ListTables ==
    /\ pc = "tables"
    /\ IF options.table.v = "all"
       THEN \E k \in 0..MaxTables : allTables' = SubSeq(TableNames, 1, k)
       ELSE allTables' = <<options.table.v>>
    /\ tableIdx' = 1
    /\ pc' = "loop"
    /\ UNCHANGED <<argv, options, config, client, exitCode, files, copied,
                   enumFetches, tableVars, callVars>>

\* getTableSchema(table, includeNullable) up to its first await: the column
\* query answers
QueryColumns ==
    /\ pc = "loop"
    /\ tableIdx <= Len(allTables)
    /\ tableName' = allTables[tableIdx]
    /\ \E rows \in RowChoices : res' = rows
    /\ pc' = "gts_enums"
    /\ UNCHANGED <<argv, options, config, client, exitCode, mainVars,
                   enums, schemaEntries, schema, callVars>>

\* the column query is rejected
QueryFails ==
    /\ pc = "loop"
    /\ tableIdx <= Len(allTables)
    /\ pc' = "catch"
    /\ UNCHANGED <<argv, options, config, client, exitCode, mainVars, tableVars, callVars>>

\* FetchEnums sending the enum query for the first table only
FetchEnums_firstOnly ==
    /\ pc = "gts_enums"
    /\ enums' = getEnumTypes(EnumRows)
    /\ enumFetches' = IF enumFetches = 0 THEN 1 ELSE enumFetches
    /\ pc' = "gts_build"
    /\ UNCHANGED <<argv, options, config, client, exitCode, allTables, tableIdx,
                   files, copied, tableName, res, schemaEntries, schema, callVars>>

\* const enums = await getEnumTypes()
FetchEnums ==
    /\ pc = "gts_enums"
    /\ enums' = getEnumTypes(EnumRows)
    /\ enumFetches' = enumFetches + 1
    /\ pc' = "gts_build"
    /\ UNCHANGED <<argv, options, config, client, exitCode, allTables, tableIdx,
                   files, copied, tableName, res, schemaEntries, schema, callVars>>

\* the rest of getTableSchema, which is synchronous: the column loop, the
\* sort, the identity entry put first, the file written
BuildSchema ==
    /\ pc = "gts_build"
    /\ \E built \in {assemble(res, enums, options.excludeDefaults, options.nullable)} :
          IF built.t = "throw"
          THEN /\ pc' = "catch"
               /\ UNCHANGED <<schemaEntries, schema, files>>
          ELSE /\ schemaEntries' = built.entries
               /\ schema' = schemaText(tableName, built.entries)
               /\ files' = files \cup {tableName}
               /\ pc' = "gts_done"
    /\ UNCHANGED <<argv, options, config, client, exitCode, allTables, tableIdx,
                   copied, enumFetches, tableName, res, enums, callVars>>

\* getTableSchema returns: its locals are gone, main goes on with the next table
ReturnTable ==
    /\ pc = "gts_done"
    /\ tableName' = ""
    /\ res' = <<>>
    /\ enums' = <<>>
    /\ schemaEntries' = <<>>
    /\ schema' = ""
    /\ tableIdx' = tableIdx + 1
    /\ pc' = "loop"
    /\ UNCHANGED <<argv, options, config, client, exitCode, allTables, files,
                   copied, enumFetches, callVars>>

\* after the last table: the copy of the custom types file is requested
CopyTypes ==
    /\ pc = "loop"
    /\ tableIdx > Len(allTables)
    /\ copied' = TRUE
    /\ pc' = "finally"
    /\ UNCHANGED <<argv, options, config, client, exitCode, allTables, tableIdx,
                   files, enumFetches, tableVars, callVars>>

\* catch (err): the error is logged
Catch ==
    /\ pc = "catch"
    /\ tableName' = ""
    /\ res' = <<>>
    /\ enums' = <<>>
    /\ schemaEntries' = <<>>
    /\ schema' = ""
    /\ pc' = "finally"
    /\ UNCHANGED <<argv, options, config, client, exitCode, mainVars, callVars>>

\* finally: await client.end(), which throws a TypeError when no client was
\* assigned
Finally ==
    /\ pc = "finally"
    /\ IF client = "undefined"
       THEN pc' = "rejected" /\ UNCHANGED client
       ELSE pc' = "done" /\ client' = "ended"
    /\ UNCHANGED <<argv, options, config, exitCode, mainVars, tableVars, callVars>>

\* the process ends; the exit handler releases the client if there is one
Exit ==
    /\ pc \in {"done", "rejected"}
    /\ exitCode' = IF pc = "done" THEN Num(0, 0) ELSE Num(1, 0)
    /\ client' = IF client = "undefined" THEN client ELSE "released"
    /\ pc' = "exited"
    /\ UNCHANGED <<argv, options, config, mainVars, tableVars, callVars>>

Next ==
    \/ ParseArgs
    \/ RejectTable
    \/ LoadConfig
    \/ Prompt
    \/ Connect
    \/ ConnectFails
    \/ ListTables
    \/ QueryColumns
    \/ QueryFails
    \/ FetchEnums
    \/ BuildSchema
    \/ ReturnTable
    \/ CopyTypes
    \/ Catch
    \/ Finally
    \/ Exit

Spec == Init /\ [][Next]_vars

\* ------------------------------------------------------------------------
\* Direct calls of the functions, on inputs drawn from pools
\* ------------------------------------------------------------------------

\* column names
NamePool ==
    { "user_id", "first_name", "id", "ID", "userId", "paid", "name", "created_at",
      "order_ID", "_id", "", "a_b_c" }

\* texts around the grammar of numbers: sign, integer part, fraction, exponent
NumberTexts ==
    { sign \o int \o frac \o exp :
        sign \in {"", "-", "+"}, int \in {"", "5", "012"}, frac \in {"", ".", ".25"},
        exp \in {"", "e2", "E-1", "e"} }

\* `'<text>'::<type>`
castOf(text, type) == "'" \o text \o "'::" \o type

\* raw defaults of numeric columns: bare texts, and texts cast to a type
NumericDefaults ==
    NumberTexts
    \cup { castOf(n, type) : n \in {"5", "-5", "+.25", "012.25e2", "5E-1", "", "e", "5."},
                             type \in NumericTypes \cup {"int4", ""} }
    \cup { "'5'", "5::integer", "nextval('users_id_seq'::regclass)", "'5'::integer " }

\* raw defaults of the other columns
OtherDefaults ==
    { "true", "false", "TRUE", "",
      "'hello'", "hello", "''", "'hello'::character varying", "'it''s'", "'a'::text",
      "now()::date", "NOW()::DATE", "current_date", "Current_Date", "('now'::text)::date",
      "('NOW'::TEXT)::DATE", "'2024-01-02'::date", "'2024-01-02'::DATE", "'2024-1-2'::date",
      "'2024-01-02'", " now()::date", "now()",
      "(now() at time zone 'utc'::text)", "(NOW() AT TIME ZONE 'UTC'::TEXT)", "NOW()",
      "current_timestamp", "CURRENT_TIMESTAMP", "'2024-01-02 03:04:05'::timestamp with time zone",
      "'2024-01-02 03:04:05'::TIMESTAMP WITH TIME ZONE", "'2024-01-02T03:04:05'::timestamp with time zone",
      "'2024-01-02 03:04:05+00'::timestamp with time zone", "now()::timestamp",
      "'active'::status", "'inactive'::status", "NULL::status", "'happy'::mood",
      "'active'::public.status", "'active'", "active::status", "'x'::status_old" }

RawDefaults == NumericDefaults \cup OtherDefaults

\* data types: those of the support table of the README, and some others
SupportedTypes ==
    NumericTypes \cup TextTypes
    \cup {"boolean", "character", "date", "timestamp with time zone", "uuid"}

DataTypePool == SupportedTypes \cup {"USER-DEFINED", "json", "character(5)"}

RegistryPool == { <<>>, getEnumTypes(EnumRows) }

UdtPool == { "status", "varchar" }

\* character_maximum_length: not passed, NULL, or a length
MaxLengthPool == { undefined, null, Num(5, 0), Num(5, 1) }

InitFn ==
    /\ argv = [table |-> undefined, excludeDefaults |-> FALSE, nullable |-> FALSE,
               reset |-> FALSE]
    /\ config = "complete"
    /\ pc = "direct"
    /\ Idle

progVars == <<argv, options, config, client, exitCode, mainVars, tableVars>>

CallReadableName ==
    /\ pc = "direct"
    /\ \E name \in NamePool :
          /\ call' = [fn |-> "getReadableNameFromSnakeCase", snakeCaseName |-> name]
          /\ ret' = Str(getReadableNameFromSnakeCase(name))
    /\ pc' = "returned"
    /\ UNCHANGED progVars

CallParseDefault ==
    /\ pc = "direct"
    /\ \E value \in RawDefaults, dataType \in DataTypePool, registry \in RegistryPool :
          /\ call' = [fn |-> "parseDefaultValue", value |-> value, dataType |-> dataType,
                      enums |-> registry]
          /\ ret' = parseDefaultValue(value, dataType, registry)
    /\ pc' = "returned"
    /\ UNCHANGED progVars

CallGetType ==
    /\ pc = "direct"
    /\ \E dataType \in DataTypePool, registry \in RegistryPool, name \in NamePool,
          udt \in UdtPool, maxLength \in MaxLengthPool :
          /\ call' = [fn |-> "getTypeForDataType", dataType |-> dataType, enums |-> registry,
                      columnName |-> name, udt_name |-> udt,
                      character_maximum_length |-> maxLength]
          /\ ret' = getTypeForDataType(dataType, registry, name, udt, maxLength)
    /\ pc' = "returned"
    /\ UNCHANGED progVars

\* rows of information_schema.columns for direct calls: columns with and
\* without defaults, nullable or not, of supported and unsupported types
ColumnPoolFn ==
    { Column("id", "integer", "NO", null, "int4", "YES", null),
      Column("seq_no", "bigint", "NO", Str("nextval('t_seq_no_seq'::regclass)"), "int8", "YES", null),
      Column("user_name", "character varying", "NO", Str("'bob'::character varying"), "varchar", "NO", Num(5, 1)),
      Column("age", "integer", "NO", Str("18"), "int4", "NO", null),
      Column("score", "numeric", "YES", Str("'1.5'::numeric"), "numeric", "NO", null),
      Column("note", "text", "YES", null, "text", "NO", null),
      Column("status", "USER-DEFINED", "NO", Str("'active'::status"), "status", "NO", null),
      Column("mood", "USER-DEFINED", "YES", null, "mood", "NO", null),
      Column("payload", "json", "NO", null, "json", "NO", null),
      Column("tags", "integer[]", "NO", null, "_int4", "NO", null),
      Column("codes", "character[]", "NO", null, "_bpchar", "NO", Num(5, 0)),
      Column("is_active", "boolean", "NO", Str("true"), "bool", "NO", null) }

\* two columns of one table whose names differ and are not both in lower
\* case, the second having been created with its name in double quotes
MixedCasePool ==
    { Column("user_name", "character varying", "NO", null, "varchar", "NO", Num(5, 1)),
      Column("userName", "text", "NO", null, "text", "NO", null) }

\* results of the column query for direct calls: up to MaxCols columns of
\* distinct names, in any order, and the two columns of MixedCasePool in
\* both orders
RowChoicesFn ==
    { rows \in UNION { [1..n -> ColumnPoolFn] : n \in 0..MaxCols } :
        \A i, j \in 1..Len(rows) : i # j => rows[i].column_name # rows[j].column_name }
    \cup { rows \in [1..2 -> MixedCasePool] : rows[1] # rows[2] }

\* most rows the enum query of a direct call answers with
MaxEnumRows == 3

\* rows of the enum query, in any order
EnumRowPool ==
    [enum_name : {"mood", "status"}, enum_value : {"a", "b", "c"}]

EnumRowChoices == UNION { [1..n -> EnumRowPool] : n \in 0..MaxEnumRows }

\* the column loop, the sort and the identity entry of getTableSchema, for
\* any rows and any values of the two policies
CallAssemble ==
    /\ pc = "direct"
    /\ \E rows \in RowChoicesFn, excludeDefaults \in BOOLEAN, includeNullable \in BOOLEAN :
          /\ call' = [fn |-> "getTableSchema", rows |-> rows,
                      enums |-> getEnumTypes(EnumRows),
                      excludeDefaults |-> excludeDefaults,
                      includeNullable |-> includeNullable]
          /\ ret' = assemble(rows, getEnumTypes(EnumRows), excludeDefaults, includeNullable)
    /\ pc' = "returned"
    /\ UNCHANGED progVars

\* the loop of getEnumTypes over the rows the enum query answers with
CallGetEnumTypes ==
    /\ pc = "direct"
    /\ \E rows \in EnumRowChoices :
          /\ call' = [fn |-> "getEnumTypes", rows |-> rows]
          /\ ret' = [t |-> "object", entries |-> getEnumTypes(rows)]
    /\ pc' = "returned"
    /\ UNCHANGED progVars

NextFn ==
    \/ CallReadableName
    \/ CallParseDefault
    \/ CallGetType
    \/ CallAssemble
    \/ CallGetEnumTypes

SpecFn == InitFn /\ [][NextFn]_vars

\* ------------------------------------------------------------------------
\* Properties of the assembled entries (specification Spec)
\* ------------------------------------------------------------------------

\* positions in res of the columns that pass both filters
IncludedIdx ==
    { i \in 1..Len(res) : included(res[i], options.excludeDefaults, options.nullable) }

\* those of them flagged as identity
IdentityIdx == { i \in IncludedIdx : res[i].is_identity = "YES" }

LastIdentity == CHOOSE i \in IdentityIdx : \A j \in IdentityIdx : j <= i

\* positions in schemaEntries after the identity entry
RestIdx == (IF IdentityIdx = {} THEN 1 ELSE 2)..Len(schemaEntries)

\* positions in schemaEntries of the entries named after column
EntriesOf(column) ==
    { k \in 1..Len(schemaEntries) : schemaEntries[k].key = camelCase(column.column_name) }

\* C1, as stated: once a table is assembled, the entry of an included
\* identity column is first and the other entries ascend by key under
\* ordinal (code-unit) comparison
C1_Original ==
    pc = "gts_done" =>
        /\ IdentityIdx # {} =>
              /\ Len(schemaEntries) >= 1
              /\ \E i \in IdentityIdx : 1 \in EntriesOf(res[i])
        /\ \A i, j \in RestIdx :
              i < j => ordinalCompare(schemaEntries[i].key, schemaEntries[j].key) <= 0

\* C1, amended: once a table is assembled, the entry of the last included
\* identity column is first and the other entries ascend by key under
\* localeCompare, which orders letters without regard to case and puts lower
\* case before upper case only to break a tie
C1_Ordered ==
    pc = "gts_done" =>
        /\ IdentityIdx # {} =>
              /\ Len(schemaEntries) >= 1
              /\ 1 \in EntriesOf(res[LastIdentity])
        /\ \A i, j \in RestIdx :
              i < j => localeCompare(schemaEntries[i].key, schemaEntries[j].key) <= 0

\* a table whose identity column comes last in the query result, after two
\* columns whose keys differ only in case and come in the other order
C1_Witness ==
    /\ pc = "gts_done"
    /\ Len(res) = 3
    /\ res[1].column_name = "user_name"
    /\ res[2].column_name = "username"
    /\ res[3].column_name = "id"
    /\ Len(schemaEntries) = 3
    /\ schemaEntries[1].key = "id"
    /\ schemaEntries[2].key = "username"
    /\ schemaEntries[3].key = "userName"

\* C2, as stated: once a table is assembled, every included column has
\* exactly one entry and there is no other entry
C2_Original ==
    pc = "gts_done" =>
        /\ Len(schemaEntries) = Cardinality(IncludedIdx)
        /\ \A i \in IncludedIdx : Cardinality(EntriesOf(res[i])) = 1

\* positions in res of the columns that have an entry: the included columns
\* that are not identity columns, and the last included identity column
KeptIdx ==
    (IncludedIdx \ IdentityIdx) \cup (IF IdentityIdx = {} THEN {} ELSE {LastIdentity})

\* C2, amended: once a table is assembled, every included column that is not
\* an identity column has exactly one entry, the last included identity
\* column has exactly one entry, the identity columns before it have none,
\* and there is no other entry
C2_OnePerKept ==
    pc = "gts_done" =>
        /\ Len(schemaEntries) = Cardinality(KeptIdx)
        /\ \A i \in KeptIdx : Cardinality(EntriesOf(res[i])) = 1
        /\ \A i \in IncludedIdx \ KeptIdx : EntriesOf(res[i]) = {}

\* a table with two identity columns and one other column
C2_Witness ==
    /\ pc = "gts_done"
    /\ Cardinality(IdentityIdx) = 2
    /\ Cardinality(IncludedIdx) = 3
    /\ Len(schemaEntries) = 2
    /\ schemaEntries[1].key = camelCase(res[LastIdentity].column_name)

\* ------------------------------------------------------------------------
\* Properties of the functions (specification SpecFn)
\* ------------------------------------------------------------------------

HasLeadingOrTrailingSpace(s) == startsWith(s, " ") \/ endsWith(s, " ")

\* C3, as stated: the label of "user_id" is "User", the label of
\* "first_name" is "First Name", and the label of a name <words>_id is the
\* label of <words>, without a space at either end
C3_Claim ==
    call.fn = "getReadableNameFromSnakeCase" =>
        /\ call.snakeCaseName = "user_id" => ret = Str("User")
        /\ call.snakeCaseName = "first_name" => ret = Str("First Name")
        /\ (Len(call.snakeCaseName) > 3 /\ endsWith(toLowerCase(call.snakeCaseName), "_id")) =>
              /\ ret = Str(getReadableNameFromSnakeCase(
                             substr(call.snakeCaseName, 1, Len(call.snakeCaseName) - 3)))
              /\ ~HasLeadingOrTrailingSpace(ret.v)

\* the enum construct over values with the first of them as its default
EnumWithFirstDefault(values) ==
    Str("z.enum([" \o join(quoteAll(values), ", ") \o "]).default('" \o values[1] \o "')")

\* C4, as stated: a direct call of getTypeForDataType for a column whose
\* udt_name is in the registry returns the enum construct over the labels of
\* the type with the first label as its default
C4_Claim ==
    (call.fn = "getTypeForDataType" /\ hasEnum(call.enums, call.udt_name)) =>
        ret = EnumWithFirstDefault(enumValues(call.enums, call.udt_name))

\* data types of parseDefaultValue's default case
OtherTypes == {"USER-DEFINED", "json", "uuid"}

EndsWithEnumCast(value, registry) ==
    \E i \in 1..Len(registry) : endsWith(value, "::" \o registry[i].enum_name)

\* position in value of its second single quote, given its first is at q
secondQuoteAfter(value, q) == q + FirstOf(substr(value, q + 1, Len(value)), "'")

HasQuotePair(value) ==
    /\ FirstOf(value, "'") > 0
    /\ secondQuoteAfter(value, FirstOf(value, "'")) > FirstOf(value, "'")

BetweenFirstQuotes(value) ==
    substr(value, FirstOf(value, "'") + 1, secondQuoteAfter(value, FirstOf(value, "'")) - 1)

\* C5, as stated: in the default case, a raw default that ends with the cast
\* to a type of the registry gives the quoted text between its first pair of
\* single quotes, and any other raw default gives undefined
C5_Claim ==
    (call.fn = "parseDefaultValue" /\ call.dataType \in OtherTypes) =>
        IF EndsWithEnumCast(call.value, call.enums)
        THEN /\ HasQuotePair(call.value)
             /\ ret = Str("'" \o BetweenFirstQuotes(call.value) \o "'")
        ELSE ret = undefined

\* C6, as stated: getTypeForDataType returns z.unknown() for no data type of
\* the support table and no enum type, whatever the maximum length
C6_Claim ==
    (/\ call.fn = "getTypeForDataType"
     /\ (call.dataType \in SupportedTypes \/ hasEnum(call.enums, call.udt_name))) =>
        ret # Str("z.unknown()")

\* the texts of the rule table, for a label and the text of a length
FixedLengthString(label, n) ==
    Str("z.string().length(" \o n \o ", '" \o label \o " must be " \o n \o " characters long')")
RequiredString(label) == Str("z.string().min(1, '" \o label \o " is required')")
PositiveNumber(label) == Str("z.number().gt(0, '" \o label \o " is required')")

\* the rule table for a call whose column has the label label
RuleTable(c, label, result) ==
    /\ (c.dataType = "character" /\ truthy(c.character_maximum_length)) =>
          result = FixedLengthString(label, toText(c.character_maximum_length))
    /\ c.dataType \in TextTypes => result = RequiredString(label)
    /\ c.dataType \in NumericTypes => result = PositiveNumber(label)
    /\ c.dataType = "boolean" => result = Str("z.boolean()")
    /\ c.dataType = "timestamp with time zone" => result = Str("zodUtcDate('" \o label \o "')")
    /\ c.dataType = "date" => result = Str("zodDateOnly('" \o label \o "')")
    /\ c.dataType = "uuid" => result = Str("zodUUID('" \o label \o "')")

castInner(value, type) == substr(value, 2, Len(value) - Len(type) - 3)

IsCastTo(value, type) ==
    /\ Len(value) >= Len(type) + 4
    /\ value = castOf(castInner(value, type), type)
    /\ MatchesNumber(castInner(value, type))

\* a quoted number text followed by a cast to anything
IsCastToAny(value) ==
    /\ charAt(value, 1) = "'"
    /\ \E q \in 2..Len(value) :
          /\ MatchesNumber(substr(value, 2, q - 1))
          /\ substr(value, q, q + 2) = "'::"

\* C8, as stated: for a numeric data type, a number text quoted and cast to
\* the type gives the number the bare text gives, a bare number text gives
\* its number, and a text of neither form gives undefined
C8_Claim ==
    (call.fn = "parseDefaultValue" /\ call.dataType \in NumericTypes) =>
        IF IsCastTo(call.value, call.dataType)
        THEN /\ ret.t = "number"
             /\ ret = parseDefaultValue(castInner(call.value, call.dataType),
                                        call.dataType, call.enums)
        ELSE IF MatchesNumber(call.value) THEN ret = Number(call.value)
        ELSE IsCastToAny(call.value) \/ ret = undefined

\* a text in one layer of single quotes
OneQuoteLayer(s) ==
    /\ Len(s) >= 2
    /\ charAt(s, 1) = "'"
    /\ charAt(s, Len(s)) = "'"
    /\ Len(s) > 2 => (charAt(s, 2) # "'" /\ charAt(s, Len(s) - 1) # "'")

\* C9, as stated: for character varying and text, the result is a text in
\* one layer of single quotes, and a raw default that is already in single
\* quotes is returned as it is
C9_Claim ==
    (call.fn = "parseDefaultValue" /\ call.dataType \in TextTypes) =>
        /\ ret.t = "string"
        /\ OneQuoteLayer(ret.v)
        /\ (Len(call.value) >= 2 /\ startsWith(call.value, "'") /\ endsWith(call.value, "'"))
              => ret.v = call.value

DateNowForms == {"now()::date", "current_date", "('now'::text)::date"}
TimestampNowForms == {"(now() at time zone 'utc'::text)", "now()", "current_timestamp"}

\* what a raw default of a date or timestamp column gives: nowForms are the
\* forms of the current instant, mask the form of a literal and last the
\* position of the last character of the literal
ExpectedDate(value, nowForms, mask, last) ==
    IF toLowerCase(value) \in nowForms THEN Str("new Date()")
    ELSE IF MatchesMask(toLowerCase(value), mask)
    THEN Str("new Date('" \o substr(value, 2, last) \o "')")
    ELSE undefined

entriesFor(entries, column) ==
    { k \in 1..Len(entries) : entries[k].key = camelCase(column.column_name) }

hasDefault(column) == column.column_default # null

passesDefaults(column, excludeDefaults) == ~(excludeDefaults /\ hasDefault(column))

passesNullable(column, includeNullable) == column.is_nullable = "NO" \/ includeNullable

\* whether a later identity column of rows that passes both filters takes
\* the place of the identity column at position i
overwritten(rows, i, excludeDefaults, includeNullable) ==
    /\ rows[i].is_identity = "YES"
    /\ \E j \in (i + 1)..Len(rows) :
          /\ rows[j].is_identity = "YES"
          /\ passesDefaults(rows[j], excludeDefaults)
          /\ passesNullable(rows[j], includeNullable)

\* C11: a column has an entry only if it is not nullable or nullable columns
\* are included; when they are included, a nullable column that the defaults
\* filter passes and that no later identity column replaces has an entry
C11_Nullable ==
    call.fn = "getTableSchema" =>
        /\ ret.t = "entries"
        /\ \A i \in 1..Len(call.rows) :
              /\ entriesFor(ret.entries, call.rows[i]) # {} =>
                    (call.rows[i].is_nullable = "NO" \/ call.includeNullable)
              /\ (/\ call.includeNullable
                  /\ call.rows[i].is_nullable = "YES"
                  /\ passesDefaults(call.rows[i], call.excludeDefaults)
                  /\ ~overwritten(call.rows, i, call.excludeDefaults, call.includeNullable)) =>
                    entriesFor(ret.entries, call.rows[i]) # {}

\* nullable columns included: the nullable column note has an entry, after
\* the entry of age
C11_Witness ==
    /\ call.fn = "getTableSchema"
    /\ call.includeNullable
    /\ ~call.excludeDefaults
    /\ Len(call.rows) = 2
    /\ call.rows[1].column_name = "note"
    /\ call.rows[2].column_name = "age"
    /\ ret.t = "entries"
    /\ Len(ret.entries) = 2
    /\ ret.entries[2].key = "note"

\* C12: with the defaults excluded no column that has a default has an
\* entry; with the defaults kept, a column that has a default, that the
\* nullable filter passes and that no later identity column replaces has an
\* entry
C12_ExcludeDefaults ==
    call.fn = "getTableSchema" =>
        /\ ret.t = "entries"
        /\ \A i \in 1..Len(call.rows) :
              /\ (call.excludeDefaults /\ hasDefault(call.rows[i])) =>
                    entriesFor(ret.entries, call.rows[i]) = {}
              /\ (/\ ~call.excludeDefaults
                  /\ hasDefault(call.rows[i])
                  /\ passesNullable(call.rows[i], call.includeNullable)
                  /\ ~overwritten(call.rows, i, call.excludeDefaults, call.includeNullable)) =>
                    entriesFor(ret.entries, call.rows[i]) # {}

\* the defaults excluded: of an identity column with a default, a nullable
\* column with a default and a column without a default, only the last has
\* an entry
C12_Witness ==
    /\ call.fn = "getTableSchema"
    /\ call.excludeDefaults
    /\ call.includeNullable
    /\ Len(call.rows) = 3
    /\ call.rows[1].column_name = "seq_no"
    /\ call.rows[2].column_name = "score"
    /\ call.rows[3].column_name = "payload"
    /\ ret.t = "entries"
    /\ Len(ret.entries) = 1
    /\ ret.entries[1].key = "payload"

\* C13, as stated: the defaults are excluded only when the flag is on the
\* command line, and in a run without the flag every non-nullable column
\* that has a default has an entry in the schema of its table
C13_Claim ==
    /\ options.t = "options" => options.excludeDefaults = argv.excludeDefaults
    /\ (pc = "gts_done" /\ ~argv.excludeDefaults) =>
          \A i \in 1..Len(res) :
              (hasDefault(res[i]) /\ res[i].is_nullable = "NO") => EntriesOf(res[i]) # {}

\* whether the column at position i of rows is to have an entry
kept(rows, i, excludeDefaults, includeNullable) ==
    /\ passesDefaults(rows[i], excludeDefaults)
    /\ passesNullable(rows[i], includeNullable)
    /\ ~overwritten(rows, i, excludeDefaults, includeNullable)

\* the wrapper for a parsed default
defaultWrapper(parsed) ==
    IF parsed = undefined THEN "" ELSE ".default(" \o toText(parsed) \o ")"

\* the wrappers of a column: the default when it has one that is parsed,
\* then optional when it is nullable
wrappersOf(column, registry) ==
    (IF hasDefault(column)
     THEN defaultWrapper(parseDefaultValue(column.column_default.v, column.data_type, registry))
     ELSE "")
    \o (IF column.is_nullable = "YES" THEN ".optional()" ELSE "")

\* C14: the value of the entry of every column that is to have one is its
\* base type, then .default(...) exactly when the column has a default that
\* is parsed, then .optional() exactly when the column is nullable; a
\* default that is not parsed ends neither the column nor the loop
C14_Wrappers ==
    call.fn = "getTableSchema" =>
        /\ ret.t = "entries"
        /\ \A i \in 1..Len(call.rows) :
              kept(call.rows, i, call.excludeDefaults, call.includeNullable) =>
                 \E k \in entriesFor(ret.entries, call.rows[i]) :
                    ret.entries[k].value =
                       columnType(call.rows[i], call.enums).v
                       \o wrappersOf(call.rows[i], call.enums)

\* a column whose default is not parsed, then a nullable column with a
\* default that is: both have an entry, the first without wrapper
C14_Witness ==
    /\ call.fn = "getTableSchema"
    /\ ~call.excludeDefaults
    /\ call.includeNullable
    /\ Len(call.rows) = 2
    /\ call.rows[1].column_name = "seq_no"
    /\ call.rows[2].column_name = "score"
    /\ ret.t = "entries"
    /\ Len(ret.entries) = 2
    /\ ret.entries[1] = [key |-> "seqNo", value |-> "z.number().gt(0, 'Seq No is required')"]
    /\ ret.entries[2] = [key |-> "score",
                         value |-> "z.number().gt(0, 'Score is required').default(1.5).optional()"]

\* whether no rule of getTypeForDataType is for the data type
MatchesNoRule(dataType, maxLength) ==
    /\ ~(dataType = "character" /\ truthy(maxLength))
    /\ ~startsWith(dataType, "character varying")
    /\ dataType \notin TextTypes \cup NumericTypes
    /\ dataType \notin {"boolean", "timestamp with time zone", "date", "uuid"}

\* whether the column goes to getTypeForDataType as it is and matches no rule
Unsupported(column, registry) ==
    /\ ~hasEnum(registry, column.udt_name)
    /\ ~endsWith(column.data_type, "[]")
    /\ MatchesNoRule(column.data_type, column.character_maximum_length)

C16_Original ==
    (options.t = "options" /\ options.table = Str("all")) => enumFetches <= 1

\* number of tables whose registry has been fetched
TablesFetched ==
    IF pc \in {"gts_build", "gts_done"} THEN tableIdx
    ELSE IF tableIdx = 0 THEN 0
    ELSE tableIdx - 1

\* C16, amended: the enum query is sent once for every table, after the
\* column query of the table, and the registry it answers with is the one
\* the entries of that table are built from
C16_OncePerTable ==
    /\ enumFetches = TablesFetched
    /\ pc \in {"gts_build", "gts_done"} => enums = getEnumTypes(EnumRows)
    /\ pc \notin {"gts_build", "gts_done"} => enums = <<>>

\* a run for all tables that generated two tables and ended
C16_Witness ==
    /\ pc = "exited"
    /\ options.table = Str("all")
    /\ files = {"users", "orders"}
    /\ copied
    /\ enumFetches = 2

\* ------------------------------------------------------------------------
\* Properties of the registry builder and of the array types (SpecFn)
\* ------------------------------------------------------------------------

\* the labels of the rows of a type, in the order of the rows
RECURSIVE labelsOf(_, _)
labelsOf(rows, name) ==
    IF Len(rows) = 0 THEN <<>>
    ELSE IF Head(rows).enum_name = name
    THEN <<Head(rows).enum_value>> \o labelsOf(Tail(rows), name)
    ELSE labelsOf(Tail(rows), name)

\* position of the first row of a type
firstRowOf(rows, name) ==
    CHOOSE i \in 1..Len(rows) :
        /\ rows[i].enum_name = name
        /\ \A j \in 1..(i - 1) : rows[j].enum_name # name

ArrayOfElement(column, registry) ==
    "z.array("
    \o getTypeForDataType(sliceOffEnd2(column.data_type), registry, column.column_name,
                          column.udt_name, column.character_maximum_length).v
    \o ")"

\* C18, as stated: the entry of a column that is not of an enum type and
\* whose data type ends with [] is the array construct around the type of
\* the element for the same name, udt_name and maximum length, then the
\* wrappers of the column
C18_Claim ==
    (call.fn = "getTableSchema" /\ ret.t = "entries") =>
        \A i \in 1..Len(call.rows) :
           (/\ kept(call.rows, i, call.excludeDefaults, call.includeNullable)
            /\ ~hasEnum(call.enums, call.rows[i].udt_name)
            /\ endsWith(call.rows[i].data_type, "[]")) =>
              \E k \in entriesFor(ret.entries, call.rows[i]) :
                 ret.entries[k].value =
                    ArrayOfElement(call.rows[i], call.enums)
                    \o wrappersOf(call.rows[i], call.enums)

\* ------------------------------------------------------------------------
\* Properties of the start and of the end of a run (specification Spec)
\* ------------------------------------------------------------------------

\* some reserved words of SQL
SqlReservedWords ==
    {"select", "delete", "update", "insert", "drop", "table", "from", "where"}

HasInvalidChar(s) ==
    \E i \in 1..Len(s) : ~(IsWordChar(charAt(s, i)) \/ charAt(s, i) = "-")

\* whether the table asked for is one the claim has rejected
ToBeRejected(table) ==
    /\ table.t = "string"
    /\ (HasInvalidChar(table.v) \/ toLowerCase(table.v) \in SqlReservedWords)

\* C19, as stated: when the table asked for has a character other than
\* letters, digits, underscore and hyphen, or is a reserved word of SQL in
\* any letter case, the process goes from the check of the option to its
\* exit with code 1 and does nothing else: the configuration is not
\* touched, no question is asked, no connection is opened and no file is
\* written
C19_Claim ==
    (options.t = "options" /\ ToBeRejected(options.table)) =>
        /\ pc \in {"validate", "exited"}
        /\ pc = "exited" => exitCode = Num(1, 0)
        /\ client = "undefined"
        /\ files = {}
        /\ ~copied

\* C20, as stated: the cleanup of main never fails, and once the process
\* has exited, a client that was acquired is closed or released
C20_Claim ==
    /\ pc # "rejected"
    /\ pc = "exited" => client \in {"undefined", "ended", "released"}

\* ------------------------------------------------------------------------
\* Properties of the entries as a whole (direct calls under SpecFn, the
\* program under Spec)
\* ------------------------------------------------------------------------

\* rows in the order p, a permutation of the positions of rows
permuted(rows, p) == [i \in 1..Len(rows) |-> rows[p[i]]]

\* rows with the first two columns exchanged, and rows with the first
\* column moved to the end; every permutation of rows is a composition of
\* these two
exchanged(rows) == IF Len(rows) < 2 THEN rows ELSE <<rows[2], rows[1]>> \o SubSeq(rows, 3, Len(rows))

rotated(rows) == IF Len(rows) < 2 THEN rows ELSE Tail(rows) \o <<Head(rows)>>

assembleCall(c, rows) == assemble(rows, c.enums, c.excludeDefaults, c.includeNullable)

\* whether the column at position i of rows passes both filters of call c
passes(c, rows, i) ==
    /\ passesDefaults(rows[i], c.excludeDefaults)
    /\ passesNullable(rows[i], c.includeNullable)

\* whether the entry that the column at position i of the call's rows gets
\* in a table of its own is among the entries returned
sameAlone(i) ==
    \E k \in 1..Len(ret.entries) :
       <<ret.entries[k]>> = assembleCall(call, <<call.rows[i]>>).entries

\* C21, as stated: the rows of a call in any other order give the same
\* entries in the same order, and the entry of a column is the one the column
\* gets whatever other columns are present
C21_Original ==
    call.fn = "getTableSchema" =>
        /\ \A p \in Permutations(1..Len(call.rows)) :
              assembleCall(call, permuted(call.rows, p)) = ret
        /\ \A i \in 1..Len(call.rows) :
              kept(call.rows, i, call.excludeDefaults, call.includeNullable) => sameAlone(i)

\* positions in rows of the identity columns that pass both filters of c
identityPositions(c, rows) ==
    { i \in 1..Len(rows) : passes(c, rows, i) /\ rows[i].is_identity = "YES" }

\* whether the order of the columns at positions i and j of rows, i before
\* j, tells in the result: both pass the filters, and either their keys are
\* equal, so that the sort leaves them in the order of rows, or both are
\* identity columns with no included identity column after j, so that the
\* one at j is the one that stays
tied(c, rows, i, j) ==
    /\ passes(c, rows, i)
    /\ passes(c, rows, j)
    /\ \/ camelCase(rows[i].column_name) = camelCase(rows[j].column_name)
       \/ /\ rows[i].is_identity = "YES"
          /\ rows[j].is_identity = "YES"
          /\ \A l \in identityPositions(c, rows) : l <= j

\* whether the first column of rows is tied with the second, and with any
\* column of rows
tiedExchange(c, rows) == Len(rows) >= 2 /\ tied(c, rows, 1, 2)

tiedRotation(c, rows) == \E j \in 2..Len(rows) : tied(c, rows, 1, j)

\* the result of a call is the same with its first two columns exchanged
\* and with its first column moved to the end, unless that changes the order
\* of two tied columns, and the last column of the call, which is any column
\* after any others, has the entry it gets alone if it is included
orderFree ==
    call.fn = "getTableSchema" =>
        /\ ~tiedExchange(call, call.rows) =>
              assembleCall(call, exchanged(call.rows)) = ret
        /\ ~tiedRotation(call, call.rows) =>
              assembleCall(call, rotated(call.rows)) = ret
        /\ \A i \in { Len(call.rows) } \ { 0 } :
              passes(call, call.rows, i) => sameAlone(i)

\* C21: at any time, the rows of a call give the same entries in the same
\* order after the exchange of the first two columns and after the move of
\* the first column to the end, unless the columns that change places are
\* included and have equal keys, or are included identity columns of which
\* another one then comes last; so the result is the same in any order that
\* such steps lead to, which is every order of a table that has at most one
\* included identity column and no two equal keys. The entry of an included
\* column listed last, after any other columns, is the one the column gets
\* in a table of its own
C21_OrderFree == []orderFree

\* a call with three included columns, one of them an identity column, whose
\* query order is not the order of their keys
C21_Witness ==
    /\ call.fn = "getTableSchema"
    /\ Len(call.rows) = 3
    /\ Len(ret.entries) = 3
    /\ Cardinality(identityPositions(call, call.rows)) = 1
    /\ \E i \in 1..2 :
          localeCompare(camelCase(call.rows[i].column_name),
                        camelCase(call.rows[i + 1].column_name)) > 0

\* C22: the column names of a call being pairwise distinct, no two of the
\* entries returned have the same key
C22_Claim ==
    (/\ call.fn = "getTableSchema"
     /\ \A i, j \in 1..Len(call.rows) :
           i # j => call.rows[i].column_name # call.rows[j].column_name) =>
        \A k, l \in 1..Len(ret.entries) : k # l => ret.entries[k].key # ret.entries[l].key

\* the constructs of the auxiliary types file that field expressions name
CustomConstructs == { "zodUtcDate", "zodDateOnly", "zodUUID" }

\* whether sub occurs in s
contains(s, sub) == \E i \in 1..Len(s) : substr(s, i, i + Len(sub) - 1) = sub

\* the positions of the line ends of text, and the least of a set of positions
lineEnds(text) == { i \in 1..Len(text) : charAt(text, i) = "\n" }

least(S) == CHOOSE i \in S : \A j \in S : i <= j

\* the second line of a generated file, which imports from the auxiliary
\* types file
typesImport(text) ==
    substr(text, least(lineEnds(text)) + 1,
           least(lineEnds(text) \ { least(lineEnds(text)) }) - 1)

\* whether a field expression of the entries calls the construct
referenced(entries, construct) ==
    \E k \in 1..Len(entries) : contains(entries[k].value, construct \o "(")

\* C23: when a table's file has been written, every custom construct that
\* one of its field expressions calls is named in the file's import from the
\* auxiliary types file
C23_Claim ==
    pc = "gts_done" =>
        \A construct \in CustomConstructs :
           referenced(schemaEntries, construct) =>
              /\ startsWith(typesImport(schema), "import {")
              /\ endsWith(typesImport(schema), "} from './types';")
              /\ contains(typesImport(schema), construct)

====
